---- MODULE Spec2Model ----
(***************************************************************************)
(* The two servers of the repository, index.js (the streaming proxy: upload,*)
(* file, files, upload-url, health) and the direct-upload server (upload-url,*)
(* posts, download-url), each a Fastify process in front of one MinIO bucket.*)
(* A process runs one of the two programs; the bucket and its objects       *)
(* outlive the process, the posts array and the requests in flight do not.  *)
(* Every await of a store call is a point where other requests interleave.  *)
(***************************************************************************)
EXTENDS Integers, Sequences, FiniteSets, TLC

\* ---------------------------------------------------------------- bounds
\* Date.now() takes the values 1..MaxTick.
MaxTick == 2
\* Requests the clients send.
MaxRequests == 2
\* Post Records one process run appends.
MaxPosts == 2

\* Requests being handled at the same time.
Reqs == {"r1", "r2"}
ReqOrder(r, s) == r = s \/ r = "r1"

\* The two programs.
Variants == {"proxy", "direct"}

\* Inputs of the clients.
Filenames == {<<"a">>, <<"b">>}
Mimetypes == {"text/plain"}
Contents == {<<104, 105>>, <<0>>}
Titles == {"t"}
Descriptions == {"d"}

\* ---------------------------------------------------------------- values
\* `${Date.now()}`: the decimal digits of a number, most significant first.
RECURSIVE Digits(_)
Digits(n) ==
  IF n < 10
    THEN <<CASE n = 0 -> "0" [] n = 1 -> "1" [] n = 2 -> "2" [] n = 3 -> "3"
             [] n = 4 -> "4" [] n = 5 -> "5" [] n = 6 -> "6" [] n = 7 -> "7"
             [] n = 8 -> "8" [] OTHER -> "9">>
    ELSE Digits(n \div 10) \o Digits(n % 10)

\* `${Date.now()}-${filename}`
UniqueFilenameNoTimestamp(t, filename) == <<"-">> \o filename
UniqueFilename(t, filename) == Digits(t) \o <<"-">> \o filename

\* The keys an upload can be stored under, and the keys a client may ask for.
StorageKeys == {UniqueFilename(t, f) : t \in 1..MaxTick, f \in Filenames}
RequestKeys == {UniqueFilename(1, <<"a">>), <<"x">>}

\* expiry of the two upload-url handlers and of the download-url handler
ProxyUploadExpiry == 24 * 60 * 60
DirectUploadExpiry == 60 * 5
DownloadExpiry == 60 * 5

\* What the store records for an object put with no metaData argument.
DefaultContentType == "application/octet-stream"

VARIABLES
  variant,    \* the program this process runs
  pc,         \* where start() is
  ensure,     \* how far ensureBucket got
  startCalls, \* the calls start() and ensureBucket have issued, in order
  bucket,     \* the store: does my-bucket exist
  objects,    \* the store: key -> object, for the keys that exist
  now,        \* Date.now()
  posts,      \* the posts array
  req,        \* the requests being handled
  accepted    \* requests accepted so far

vars == <<variant, pc, ensure, startCalls, bucket, objects, now, posts, req,
          accepted>>

storeVars == <<bucket, objects>>
startVars == <<variant, pc, ensure, startCalls>>

\* ---------------------------------------------------------------- requests
NoFile == [present |-> FALSE, filename |-> <<>>, mimetype |-> "", content |-> <<>>]
Files == [present : {TRUE}, filename : Filenames, mimetype : Mimetypes,
          content : Contents]
NoBody == [present |-> FALSE, title |-> "", description |-> "", fileKey |-> <<>>]
Bodies == [present : {TRUE}, title : Titles, description : Descriptions,
           fileKey : {UniqueFilename(1, <<"a">>), <<"x">>}]

NoResp == [status |-> 0]

\* A request: its route and inputs, the handler's position and locals (tick
\* is the Date.now() an upload read),
\* the store calls it has issued, the call that rejected and the error code
\* caught, the requests answered before it came (kept for the reads of the
\* bucket, GET /file and GET /files), whether an object has been written under
\* the key since a DELETE of it was answered, and its answer.
Idle == [op |-> "idle", pc |-> "idle", key |-> <<>>, file |-> NoFile,
         body |-> NoBody, calls |-> <<>>, failed |-> "", caught |-> "",
         stream |-> <<>>, listing |-> <<>>, objectsList |-> <<>>,
         degraded |-> {}, expiry |-> 0, tick |-> 0, seen |-> {},
         rewritten |-> FALSE, resp |-> NoResp]

\* The requests that had been answered when request r was accepted.
Answered(r) == {s \in Reqs \ {r} : req[s].pc = "done"}

NewReq(r, op, key) ==
  [Idle EXCEPT !.op = op, !.key = key,
               !.seen = IF op \in {"file", "files"} THEN Answered(r) ELSE {}]

\* A request is accepted while the server listens. It takes the first place
\* of req never used, or the place of a request already answered, whose
\* record is then dropped.
CanAccept(r) ==
  /\ pc = "listening"
  /\ \/ req[r].pc = "done"
     \/ /\ req[r].pc = "idle"
        /\ \A s \in Reqs : req[s].pc = "idle" => ReqOrder(r, s)
  /\ accepted < MaxRequests

Reply(q, resp) == [q EXCEPT !.pc = "done", !.resp = resp]

\* request r was answered; it was answered 200
Done(r, op) == req[r].op = op /\ req[r].pc = "done"
Ok(r, op) == Done(r, op) /\ req[r].resp.status = 200

\* ---------------------------------------------------------------- the store
\* Byte order of the characters keys are made of.
CharOrder == <<"-", "0", "1", "2", "3", "4", "5", "6", "7", "8", "9", "a", "b", "x">>
CharRank(c) == CHOOSE i \in 1..Len(CharOrder) : CharOrder[i] = c

\* a sorts before b (the store enumerates keys in byte order)
RECURSIVE KeyLess(_, _)
KeyLess(a, b) ==
  IF a = <<>> THEN b # <<>>
  ELSE IF b = <<>> THEN FALSE
  ELSE IF Head(a) = Head(b) THEN KeyLess(Tail(a), Tail(b))
  ELSE CharRank(Head(a)) < CharRank(Head(b))

RECURSIVE SortKeys(_)
SortKeys(S) ==
  IF S = {} THEN <<>>
  ELSE LET first == CHOOSE x \in S : \A y \in S \ {x} : KeyLess(x, y)
       IN <<first>> \o SortKeys(S \ {first})

Exists(k) == bucket /\ k \in DOMAIN objects

\* putObject(BUCKET_NAME, uniqueFilename, data.file): the stream and no
\* metaData, so the object carries the store's default content type and no
\* x-amz-meta-original-name.
StoredObject(content) ==
  [content |-> content, size |-> Len(content), lastModified |-> now,
   metaData |-> [h \in {"content-type"} |-> DefaultContentType]]

PutObject(k, content) ==
  objects' = [x \in DOMAIN objects \cup {k} |->
                IF x = k THEN StoredObject(content) ELSE objects[x]]

\* What the bucket holds when the process is first started: nothing, or an
\* object that an upload of an earlier run put there.
NoObjects == <<>>
EarlierObjects ==
  [x \in {UniqueFilename(1, <<"a">>)} |->
     [content |-> <<0>>, size |-> 1, lastModified |-> 1,
      metaData |-> [h \in {"content-type"} |-> DefaultContentType]]]

\* removeObject succeeds on an absent key too
RemoveObjectKeeps(k) == objects' = objects
RemoveObject(k) == objects' = [x \in DOMAIN objects \ {k} |-> objects[x]]

\* listObjects(BUCKET_NAME, '', true): one item per object, in key order
ListObjects ==
  LET keys == SortKeys(DOMAIN objects)
  IN [i \in 1..Len(keys) |->
        [name |-> keys[i], size |-> objects[keys[i]].size,
         lastModified |-> objects[keys[i]].lastModified]]

\* statObject's result
StatObject(k) == [size |-> objects[k].size, metaData |-> objects[k].metaData]

\* stat.metaData[h] is truthy: set and not the empty string. A content type
\* is a string, a name a sequence of characters.
HasType(metaData, h) == h \in DOMAIN metaData /\ metaData[h] # ""
HasName(metaData, h) == h \in DOMAIN metaData /\ metaData[h] # <<>>

\* The error codes a store call can reject with. "Other" is any failure of the
\* store or the connection; a missing key or bucket is reported by the call
\* that meets it. getObject is a GET, whose error body names NoSuchKey;
\* statObject is a HEAD, which has no body, so the code the client reports
\* for a 404 is NotFound or NoSuchKey.
BucketErrors == {"Other"} \cup (IF bucket THEN {} ELSE {"NoSuchBucket"})
GetObjectErrors(k) ==
  BucketErrors \cup (IF bucket /\ k \notin DOMAIN objects THEN {"NoSuchKey"} ELSE {})
StatObjectErrors(k) ==
  {"Other"} \cup (IF Exists(k) THEN {} ELSE {"NotFound", "NoSuchKey"})

\* ---------------------------------------------------------------- startup
\* ensureBucket of index.js catches and logs (lines 27-29), so start() goes on
\* to listen; ensureBucket of the direct-upload server has no catch and
\* neither has its start(), so the rejection ends start() before listen.
AfterEnsureErrorSwapped == IF variant = "proxy" THEN "rejected" ELSE "listen"
AfterEnsureError == IF variant = "proxy" THEN "listen" ELSE "rejected"

\* start()'s catch of index.js exits (line 219); the other start() rejects.
AfterListenError == IF variant = "proxy" THEN "exit1" ELSE "rejected"

Issue(p) == IF p = "listen" THEN Append(startCalls, "listen") ELSE startCalls

\* if (!exists) makeBucket
NeedsMakeAlways(exists) == TRUE
NeedsMake(exists) == ~exists

\* Where start stands once bucketExists has answered: `await
\* minioClient.makeBucket(...)` holds it until makeBucket is over; with the
\* bucket there ensureBucket returns and start calls listen.
AfterCheckNoAwait(exists) == "listen"
AfterCheck(exists) == IF NeedsMake(exists) THEN "makeBucket" ELSE "listen"

BucketExistsReturns ==
  /\ pc = "bucketExists"
  /\ pc' = AfterCheck(bucket)
  /\ startCalls' = Append(startCalls,
                          IF NeedsMake(bucket) THEN "makeBucket" ELSE "listen")
  /\ ensure' = IF bucket THEN "present" ELSE "absent"
  /\ UNCHANGED <<variant, bucket, objects, now, posts, req, accepted>>

BucketExistsFails ==
  /\ pc = "bucketExists"
  /\ pc' = AfterEnsureError
  /\ startCalls' = Issue(pc')
  /\ ensure' = "checkError"
  /\ UNCHANGED <<variant, bucket, objects, now, posts, req, accepted>>

MakeBucketReturns ==
  /\ pc = "makeBucket"
  /\ bucket' = TRUE
  /\ pc' = "listen"
  /\ startCalls' = Append(startCalls, "listen")
  /\ ensure' = "created"
  /\ UNCHANGED <<variant, objects, now, posts, req, accepted>>

MakeBucketFails ==
  /\ pc = "makeBucket"
  /\ pc' = AfterEnsureError
  /\ startCalls' = Issue(pc')
  /\ ensure' = "makeError"
  /\ UNCHANGED <<variant, bucket, objects, now, posts, req, accepted>>

ListenReturns ==
  /\ pc = "listen"
  /\ pc' = "listening"
  /\ UNCHANGED <<variant, ensure, startCalls, bucket, objects, now,
                 posts, req, accepted>>

ListenFails ==
  /\ pc = "listen"
  /\ pc' = AfterListenError
  /\ UNCHANGED <<variant, ensure, startCalls, bucket, objects, now,
                 posts, req, accepted>>

\* The process ends and one of the two programs is started: module state is
\* built anew (posts = [], no request), the store keeps what it holds.
Restart ==
  /\ variant' \in Variants
  /\ pc' = "bucketExists"
  /\ ensure' = "pending"
  /\ startCalls' = <<"bucketExists">>
  /\ posts' = <<>>
  /\ req' = [r \in Reqs |-> Idle]
  /\ UNCHANGED <<bucket, objects, now, accepted>>

\* Date.now() moves on.
Tick ==
  /\ now < MaxTick
  /\ now' = now + 1
  /\ UNCHANGED <<variant, pc, ensure, startCalls, bucket, objects,
                 posts, req, accepted>>

\* ---------------------------------------------------------------- handlers
Accept(r, q) ==
  /\ CanAccept(r)
  /\ req' = [s \in Reqs |-> IF s = r THEN q ELSE [req[s] EXCEPT !.seen = @ \ {r}]]
  /\ accepted' = accepted + 1

Step(r, q) == req' = [req EXCEPT ![r] = q]

Running(r, op, at) == pc = "listening" /\ req[r].op = op /\ req[r].pc = at

\* a store call is issued
Call(q, name) == [q EXCEPT !.calls = Append(@, name)]

\* the awaited call rejects with an error of this code
Rejected(q, code) == [q EXCEPT !.failed = q.pc, !.caught = code]

\* if (error.code === 'NoSuchKey'), in the catch blocks of GET /file/:filename
\* and DELETE /file/:filename
IsNotFound(code) == code = "NoSuchKey"

\* GET /health (index.js)
Health(r) ==
  /\ variant = "proxy"
  /\ Accept(r, Reply(NewReq(r, "health", <<>>),
                     [status |-> 200, body |-> "ok"]))
  /\ UNCHANGED <<startVars, storeVars, now, posts>>

\* POST /upload, the request is not multipart: request.file() of line 58
\* rejects, the catch of lines 81-84 answers
UploadNotMultipart(r) ==
  /\ variant = "proxy"
  /\ Accept(r, Reply(Rejected([NewReq(r, "upload", <<>>) EXCEPT !.pc = "file"],
                              "NotMultipart"),
                     [status |-> 500, error |-> "Failed to upload file"]))
  /\ UNCHANGED <<startVars, storeVars, now, posts>>

\* if (!data), line 60: request.file() resolved with no file part
MissingFileNever(data) == FALSE
MissingFile(data) == ~data.present

\* POST /upload, no file part: lines 58-62
UploadNoFile(r) ==
  /\ variant = "proxy"
  /\ MissingFile(NoFile)
  /\ Accept(r, Reply(NewReq(r, "upload", <<>>),
                     [status |-> 400, error |-> "No file uploaded"]))
  /\ UNCHANGED <<startVars, storeVars, now, posts>>

\* POST /upload, lines 58-71: the key is made and putObject is issued
UploadPut(r, file) ==
  /\ variant = "proxy"
  /\ ~MissingFile(file)
  /\ Accept(r, Call([NewReq(r, "upload", UniqueFilename(now, file.filename))
                       EXCEPT !.file = file, !.tick = now, !.pc = "putObject"],
                    "putObject"))
  /\ UNCHANGED <<startVars, storeVars, now, posts>>

\* putObject resolves: lines 73-79
PutObjectReturns(r) ==
  /\ Running(r, "upload", "putObject")
  /\ bucket
  /\ PutObject(req[r].key, req[r].file.content)
  /\ req' = [s \in Reqs |->
               IF s = r
                 THEN Reply(req[r], [status |-> 200, filename |-> req[r].key,
                                     originalName |-> req[r].file.filename,
                                     mimetype |-> req[r].file.mimetype])
                 ELSE IF /\ req[s].op = "delete" /\ req[s].pc = "done"
                         /\ req[s].resp.status = 200
                         /\ req[s].key = req[r].key
                        THEN [req[s] EXCEPT !.rewritten = TRUE]
                        ELSE req[s]]
  /\ UNCHANGED <<startVars, bucket, now, posts, accepted>>

\* putObject rejects: lines 81-84
PutObjectFails(r) ==
  /\ Running(r, "upload", "putObject")
  /\ \E code \in BucketErrors :
       Step(r, Reply(Rejected(req[r], code),
                     [status |-> 500, error |-> "Failed to upload file"]))
  /\ UNCHANGED <<startVars, storeVars, now, posts, accepted>>

\* GET /file/:filename, lines 90-93: getObject is issued
Retrieve(r, k) ==
  /\ variant = "proxy"
  /\ Accept(r, Call([NewReq(r, "file", k) EXCEPT !.pc = "getObject"], "getObject"))
  /\ UNCHANGED <<startVars, storeVars, now, posts>>

\* getObject resolves with the stream; statObject is issued (line 96)
GetObjectReturns(r) ==
  /\ Running(r, "file", "getObject")
  /\ Exists(req[r].key)
  /\ Step(r, Call([req[r] EXCEPT !.stream = objects[req[r].key].content,
                                 !.pc = "statObject"], "statObject"))
  /\ UNCHANGED <<startVars, storeVars, now, posts, accepted>>

\* lines 109-115
RetrieveCatchAlwaysNotFound(q, code) ==
  Reply(Rejected(q, code), [status |-> 404, error |-> "File not found"])
RetrieveCatch(q, code) ==
  Reply(Rejected(q, code),
        IF IsNotFound(code)
          THEN [status |-> 404, error |-> "File not found"]
          ELSE [status |-> 500, error |-> "Failed to retrieve file"])

GetObjectFails(r) ==
  /\ Running(r, "file", "getObject")
  /\ \E code \in GetObjectErrors(req[r].key) : Step(r, RetrieveCatch(req[r], code))
  /\ UNCHANGED <<startVars, storeVars, now, posts, accepted>>

\* reply.type(stat.metaData['content-type'] || 'application/octet-stream')
ReplyType(stat) ==
  IF HasType(stat.metaData, "content-type") THEN stat.metaData["content-type"]
  ELSE "application/octet-stream"

\* Content-Disposition is set if the original name is in the metadata:
\* lines 103-105
DispositionHeader(stat) ==
  IF HasName(stat.metaData, "x-amz-meta-original-name")
    THEN [disposition |-> stat.metaData["x-amz-meta-original-name"]]
    ELSE <<>>

\* statObject resolves: lines 99-107
RetrieveStatReturns(r) ==
  /\ Running(r, "file", "statObject")
  /\ Exists(req[r].key)
  /\ LET stat == StatObject(req[r].key)
     IN Step(r, Reply(req[r],
          [status |-> 200, contentType |-> ReplyType(stat),
           contentLength |-> stat.size, body |-> req[r].stream]
          @@ DispositionHeader(stat)))
  /\ UNCHANGED <<startVars, storeVars, now, posts, accepted>>

RetrieveStatFails(r) ==
  /\ Running(r, "file", "statObject")
  /\ \E code \in StatObjectErrors(req[r].key) : Step(r, RetrieveCatch(req[r], code))
  /\ UNCHANGED <<startVars, storeVars, now, posts, accepted>>

\* GET /files, lines 121-122: listObjects is issued
List(r) ==
  /\ variant = "proxy"
  /\ Accept(r, Call([NewReq(r, "files", <<>>) EXCEPT !.pc = "listObjects"],
                    "listObjects"))
  /\ UNCHANGED <<startVars, storeVars, now, posts>>

\* lines 145-149
ListResponse(objectsList) ==
  [status |-> 200, bucket |-> "my-bucket", files |-> objectsList,
   count |-> Len(objectsList)]

\* for await (const obj of stream): the next item's statObject is issued
\* (line 127), or the loop is over and the handler returns
ListNext(q) ==
  IF Len(q.objectsList) < Len(q.listing)
    THEN Call([q EXCEPT !.pc = "statObject"], "statObject")
    ELSE Reply(q, ListResponse(q.objectsList))

\* the stream yields the bucket's objects
ListObjectsReturns(r) ==
  /\ Running(r, "files", "listObjects")
  /\ bucket
  /\ Step(r, ListNext([req[r] EXCEPT !.listing = ListObjects]))
  /\ UNCHANGED <<startVars, storeVars, now, posts, accepted>>

\* the stream throws: lines 151-154
ListObjectsFails(r) ==
  /\ Running(r, "files", "listObjects")
  /\ \E code \in BucketErrors :
       Step(r, Reply(Rejected(req[r], code),
                     [status |-> 500, error |-> "Failed to list files"]))
  /\ UNCHANGED <<startVars, storeVars, now, posts, accepted>>

\* the item of the listing whose statObject is awaited
Current(q) == q.listing[Len(q.objectsList) + 1]

\* originalName: stat.metaData['x-amz-meta-original-name'] || obj.name
OriginalName(obj, stat) ==
  IF HasName(stat.metaData, "x-amz-meta-original-name")
    THEN stat.metaData["x-amz-meta-original-name"]
    ELSE obj.name

\* contentType: stat.metaData['content-type'], left out when undefined
ContentTypeField(stat) ==
  IF "content-type" \in DOMAIN stat.metaData
    THEN [contentType |-> stat.metaData["content-type"]]
    ELSE <<>>

\* lines 128-134
FullEntry(obj, stat) ==
  [name |-> obj.name, originalName |-> OriginalName(obj, stat),
   size |-> obj.size, lastModified |-> obj.lastModified]
  @@ ContentTypeField(stat)

\* lines 137-141
BasicEntry(obj) ==
  [name |-> obj.name, size |-> obj.size, lastModified |-> obj.lastModified]

ListStatReturns(r) ==
  /\ Running(r, "files", "statObject")
  /\ Exists(Current(req[r]).name)
  /\ LET obj == Current(req[r])
     IN Step(r, ListNext([req[r] EXCEPT !.objectsList =
                  Append(@, FullEntry(obj, StatObject(obj.name)))]))
  /\ UNCHANGED <<startVars, storeVars, now, posts, accepted>>

\* the inner catch, lines 135-142: the item is pushed with its basic fields
\* and the loop goes on
ListStatCatchThrows(q) ==
  Reply(Rejected(q, "Other"), [status |-> 500, error |-> "Failed to list files"])
ListStatCatch(q) ==
  ListNext([q EXCEPT !.objectsList = Append(@, BasicEntry(Current(q))),
                     !.degraded = @ \cup {Len(q.objectsList) + 1}])

ListStatFails(r) ==
  /\ Running(r, "files", "statObject")
  /\ StatObjectErrors(Current(req[r]).name) # {}
  /\ Step(r, ListStatCatch(req[r]))
  /\ UNCHANGED <<startVars, storeVars, now, posts, accepted>>

\* DELETE /file/:filename, lines 160-163: statObject is issued
Delete(r, k) ==
  /\ variant = "proxy"
  /\ Accept(r, Call([NewReq(r, "delete", k) EXCEPT !.pc = "statObject"],
                    "statObject"))
  /\ UNCHANGED <<startVars, storeVars, now, posts>>

\* statObject resolves; removeObject is issued (line 166)
DeleteStatReturns(r) ==
  /\ Running(r, "delete", "statObject")
  /\ Exists(req[r].key)
  /\ Step(r, Call([req[r] EXCEPT !.pc = "removeObject"], "removeObject"))
  /\ UNCHANGED <<startVars, storeVars, now, posts, accepted>>

\* lines 173-179
DeleteCatchThenRemoves(q, code) ==
  Call(Reply(Rejected(q, code),
             [status |-> 500, error |-> "Failed to delete file"]),
       "removeObject")
DeleteCatch(q, code) ==
  Reply(Rejected(q, code),
        IF IsNotFound(code)
          THEN [status |-> 404, error |-> "File not found"]
          ELSE [status |-> 500, error |-> "Failed to delete file"])

DeleteStatFails(r) ==
  /\ Running(r, "delete", "statObject")
  /\ \E code \in StatObjectErrors(req[r].key) : Step(r, DeleteCatch(req[r], code))
  /\ UNCHANGED <<startVars, storeVars, now, posts, accepted>>

\* removeObject resolves: lines 168-171
RemoveObjectReturns(r) ==
  /\ Running(r, "delete", "removeObject")
  /\ bucket
  /\ RemoveObject(req[r].key)
  /\ Step(r, Reply(req[r], [status |-> 200, success |-> TRUE]))
  /\ UNCHANGED <<startVars, bucket, now, posts, accepted>>

RemoveObjectFails(r) ==
  /\ Running(r, "delete", "removeObject")
  /\ \E code \in BucketErrors : Step(r, DeleteCatch(req[r], code))
  /\ UNCHANGED <<startVars, storeVars, now, posts, accepted>>

\* The URL a signing call returns: bound to a method, a key and an expiry.
Presigned(method, key, expiry) ==
  [method |-> method, key |-> key, expires |-> expiry]

\* const expiry of the upload-url handler of the running program
UploadExpiry == IF variant = "proxy" THEN ProxyUploadExpiry ELSE DirectUploadExpiry

\* GET /upload-url/:filename of either program: presignedPutObject is issued
\* with the handler's expiry
UploadUrl(r, k) ==
  /\ Accept(r, Call([NewReq(r, "upload-url", k)
                       EXCEPT !.pc = "presignedPutObject",
                              !.expiry = UploadExpiry],
                    "presignedPutObject"))
  /\ UNCHANGED <<startVars, storeVars, now, posts>>

\* the returned object: index.js lines 190-194, the other server's 41-45
UploadUrlResponseDownloadExpiry(q) ==
  [status |-> 200, uploadUrl |-> Presigned("PUT", q.key, q.expiry),
   filename |-> q.key, expiresIn |-> DownloadExpiry]
UploadUrlResponse(q) ==
  IF variant = "proxy"
    THEN [status |-> 200, uploadUrl |-> Presigned("PUT", q.key, q.expiry),
          filename |-> q.key, expiresIn |-> UploadExpiry]
    ELSE [status |-> 200, uploadUrl |-> Presigned("PUT", q.key, q.expiry),
          fileKey |-> q.key, expiresIn |-> UploadExpiry]

PresignedPutReturns(r) ==
  /\ Running(r, "upload-url", "presignedPutObject")
  /\ Step(r, Reply(req[r], UploadUrlResponse(req[r])))
  /\ UNCHANGED <<startVars, storeVars, now, posts, accepted>>

PresignedPutFails(r) ==
  /\ Running(r, "upload-url", "presignedPutObject")
  /\ Step(r, Reply(Rejected(req[r], "Other"),
       [status |-> 500,
        error |-> IF variant = "proxy" THEN "Failed to generate upload URL"
                                       ELSE "Failed to create presigned URL"]))
  /\ UNCHANGED <<startVars, storeVars, now, posts, accepted>>

\* GET /download-url/:fileKey: presignedGetObject(BUCKET_NAME, fileKey, 60 * 5)
DownloadUrl(r, k) ==
  /\ variant = "direct"
  /\ Accept(r, Call([NewReq(r, "download-url", k)
                       EXCEPT !.pc = "presignedGetObject",
                              !.expiry = DownloadExpiry],
                    "presignedGetObject"))
  /\ UNCHANGED <<startVars, storeVars, now, posts>>

\* return { url }
DownloadUrlResponse(q) ==
  [status |-> 200, url |-> Presigned("GET", q.key, q.expiry)]

PresignedGetReturns(r) ==
  /\ Running(r, "download-url", "presignedGetObject")
  /\ Step(r, Reply(req[r], DownloadUrlResponse(req[r])))
  /\ UNCHANGED <<startVars, storeVars, now, posts, accepted>>

PresignedGetFails(r) ==
  /\ Running(r, "download-url", "presignedGetObject")
  /\ Step(r, Reply(Rejected(req[r], "Other"),
                   [status |-> 500, error |-> "Failed to get download URL"]))
  /\ UNCHANGED <<startVars, storeVars, now, posts, accepted>>

\* id: posts.length + 1
NextIdIsLength(ps) == Len(ps)
NextId(ps) == Len(ps) + 1

\* the post object, lines 56-61
Post(ps, body) ==
  [id |-> NextId(ps), title |-> body.title, description |-> body.description,
   fileKey |-> body.fileKey]

\* posts.push(post)
PushFront(ps, post) == <<post>> \o ps
Push(ps, post) == Append(ps, post)

\* POST /posts with a JSON body: the handler has no await, it runs in one turn
PostsAppend(r, body) ==
  /\ variant = "direct"
  /\ Len(posts) < MaxPosts
  /\ LET post == Post(posts, body)
     IN /\ posts' = Push(posts, post)
        /\ Accept(r, Reply([NewReq(r, "posts", <<>>) EXCEPT !.body = body],
                           [status |-> 200, success |-> TRUE, post |-> post]))
  /\ UNCHANGED <<startVars, storeVars, now>>

\* POST /posts with no body: destructuring req.body throws (line 54), the
\* framework answers 500
PostsNoBody(r) ==
  /\ variant = "direct"
  /\ Accept(r, Reply(NewReq(r, "posts", <<>>),
                     [status |-> 500, error |-> "Internal Server Error"]))
  /\ UNCHANGED <<startVars, storeVars, now, posts>>

\* GET /posts
PostsListDrains(r) ==
  /\ variant = "direct"
  /\ Accept(r, Reply(NewReq(r, "posts-list", <<>>),
                     [status |-> 200, body |-> posts]))
  /\ posts' = <<>>
  /\ UNCHANGED <<startVars, storeVars, now>>
PostsList(r) ==
  /\ variant = "direct"
  /\ Accept(r, Reply(NewReq(r, "posts-list", <<>>),
                     [status |-> 200, body |-> posts]))
  /\ UNCHANGED <<startVars, storeVars, now, posts>>

\* ---------------------------------------------------------------- behaviours
Init ==
  /\ variant \in Variants
  /\ pc = "bucketExists"
  /\ ensure = "pending"
  /\ startCalls = <<"bucketExists">>
  /\ bucket \in BOOLEAN
  /\ objects \in IF bucket THEN {NoObjects, EarlierObjects} ELSE {NoObjects}
  /\ now = 1
  /\ posts = <<>>
  /\ req = [r \in Reqs |-> Idle]
  /\ accepted = 0

Next ==
  \/ BucketExistsReturns
  \/ BucketExistsFails
  \/ MakeBucketReturns
  \/ MakeBucketFails
  \/ ListenReturns
  \/ ListenFails
  \/ Restart
  \/ Tick
  \/ \E r \in Reqs : Health(r)
  \/ \E r \in Reqs : UploadNoFile(r)
  \/ \E r \in Reqs : UploadNotMultipart(r)
  \/ \E r \in Reqs, file \in Files \cup {NoFile} : UploadPut(r, file)
  \/ \E r \in Reqs : PutObjectReturns(r)
  \/ \E r \in Reqs : PutObjectFails(r)
  \/ \E r \in Reqs, k \in RequestKeys : Retrieve(r, k)
  \/ \E r \in Reqs : GetObjectReturns(r)
  \/ \E r \in Reqs : GetObjectFails(r)
  \/ \E r \in Reqs : RetrieveStatReturns(r)
  \/ \E r \in Reqs : RetrieveStatFails(r)
  \/ \E r \in Reqs : List(r)
  \/ \E r \in Reqs : ListObjectsReturns(r)
  \/ \E r \in Reqs : ListObjectsFails(r)
  \/ \E r \in Reqs : ListStatReturns(r)
  \/ \E r \in Reqs : ListStatFails(r)
  \/ \E r \in Reqs, k \in RequestKeys : Delete(r, k)
  \/ \E r \in Reqs : DeleteStatReturns(r)
  \/ \E r \in Reqs : DeleteStatFails(r)
  \/ \E r \in Reqs : RemoveObjectReturns(r)
  \/ \E r \in Reqs : RemoveObjectFails(r)
  \/ \E r \in Reqs, k \in RequestKeys : UploadUrl(r, k)
  \/ \E r \in Reqs : PresignedPutReturns(r)
  \/ \E r \in Reqs : PresignedPutFails(r)
  \/ \E r \in Reqs, k \in RequestKeys : DownloadUrl(r, k)
  \/ \E r \in Reqs : PresignedGetReturns(r)
  \/ \E r \in Reqs : PresignedGetFails(r)
  \/ \E r \in Reqs, body \in Bodies : PostsAppend(r, body)
  \/ \E r \in Reqs : PostsNoBody(r)
  \/ \E r \in Reqs : PostsList(r)

Spec == Init /\ [][Next]_vars

\* ---------------------------------------------------------------- properties

Range(f) == {f[i] : i \in DOMAIN f}
IsPrefix(s, t) == Len(s) <= Len(t) /\ SubSeq(t, 1, Len(s)) = s

\* C1: a successful Store followed by a Retrieve of the key it returned gives
\* back the uploaded bytes and the content type declared at upload.
C1_StoreThenRetrieve ==
  \A r, s \in Reqs :
    (/\ Ok(s, "upload") /\ Ok(r, "file")
     /\ s \in req[r].seen
     /\ req[r].key = req[s].resp.filename)
    => /\ req[r].resp.body = req[s].file.content
       /\ req[r].resp.contentType = req[s].file.mimetype

\* The codes by which a store call reports that the key is not there.
MissingKeyCodes == {"NoSuchKey", "NotFound", "NoSuchBucket"}

\* C2: when a store call of Retrieve or Delete reports that the key is
\* missing, the answer is 404 'File not found', never 500.
C2_MissingKeyIsNotFound ==
  \A r \in Reqs :
    (/\ Done(r, "file") \/ Done(r, "delete")
     /\ req[r].failed \in {"getObject", "statObject"}
     /\ req[r].caught \in MissingKeyCodes)
    => /\ req[r].resp.status = 404
       /\ req[r].resp.error = "File not found"

\* the calls of a Delete, and the step in which its statObject rejects
C3_Calls ==
  \A r \in Reqs :
    req[r].op = "delete" =>
      /\ req[r].calls \in {<<"statObject">>, <<"statObject", "removeObject">>}
      /\ req[r].pc = "statObject" => req[r].calls = <<"statObject">>
      /\ req[r].failed = "statObject" =>
           /\ req[r].pc = "done"
           /\ req[r].resp.status \in {404, 500}
           /\ req[r].calls = <<"statObject">>
C3_StatFailsStep ==
  \A r \in Reqs :
    (/\ req[r].op = "delete" /\ req[r].pc = "statObject"
     /\ req'[r].failed = "statObject")
    => /\ objects' = objects /\ bucket' = bucket
       /\ req'[r].calls = <<"statObject">>
\* C3: a Delete issues statObject first and removeObject only after it; when
\* statObject rejects, removeObject is never issued and the step that answers
\* leaves the store as it was.
C3_StatBeforeRemove == []C3_Calls /\ [][C3_StatFailsStep]_vars

C3_Witness ==
  \E r \in Reqs :
    /\ Done(r, "delete") /\ req[r].failed = "statObject"
    /\ req[r].caught = "Other" /\ Exists(req[r].key)

\* entry i of a List answer against item i of the enumeration
C4_Entry(q, i) ==
  LET e == q.resp.files[i]
      obj == q.listing[i]
  IN /\ e.name = obj.name /\ e.size = obj.size
     /\ e.lastModified = obj.lastModified
     /\ DOMAIN e = IF i \in q.degraded
                     THEN {"name", "size", "lastModified"}
                     ELSE {"name", "size", "lastModified", "originalName",
                           "contentType"}
\* C4: once the enumeration has succeeded, List answers 200 whatever the
\* statObject calls do: one entry per enumerated object, in the order of the
\* enumeration, with the key, size and last-modified of the enumeration; an
\* entry whose statObject rejected has these three fields only, every other
\* has originalName and contentType too; count is the number enumerated.
C4_ListDegrades ==
  \A r \in Reqs :
    (Done(r, "files") /\ req[r].failed # "listObjects") =>
      /\ req[r].resp.status = 200
      /\ req[r].resp.count = Len(req[r].listing)
      /\ Len(req[r].resp.files) = Len(req[r].listing)
      /\ \A i \in 1..Len(req[r].listing) : C4_Entry(req[r], i)

C4_Witness ==
  \E r \in Reqs :
    /\ Ok(r, "files")
    /\ Len(req[r].listing) >= 2
    /\ req[r].degraded # {}
    /\ req[r].degraded # 1..Len(req[r].listing)

\* The process was started again in this step.
Restarted == pc' = "bucketExists" /\ req' = [r \in Reqs |-> Idle] /\ posts' = <<>>

\* identifiers are positions; the steps that change posts or fail
C5_Ids ==
  /\ \A i \in 1..Len(posts) : posts[i].id = i
  /\ \A r \in Reqs : Ok(r, "posts") =>
       /\ req[r].resp.post.id \in 1..Len(posts)
       /\ posts[req[r].resp.post.id] = req[r].resp.post
  /\ \A r, s \in Reqs :
       (r # s /\ Ok(r, "posts") /\ Ok(s, "posts")) =>
         req[r].resp.post.id # req[s].resp.post.id
C5_AppendStep ==
  posts' # posts =>
    \/ Restarted
    \/ /\ Len(posts') = Len(posts) + 1
       /\ \E r \in Reqs :
            /\ req'[r] # req[r]
            /\ req'[r].op = "posts" /\ req'[r].resp.status = 200
            /\ req'[r].resp.post = posts'[Len(posts')]
            /\ req'[r].resp.post.id = Len(posts) + 1
C5_FailedStep ==
  \A r \in Reqs :
    (req'[r] # req[r] /\ req'[r].op = "posts" /\ req'[r].resp.status # 200)
    => posts' = posts
\* C5: the n-th record appended has identifier n; the posts array changes
\* only by one successful POST /posts appending the record its answer
\* carries, so a request that fails takes no identifier.
C5_SequentialIds == []C5_Ids /\ [][C5_AppendStep /\ C5_FailedStep]_vars

C5_Witness ==
  /\ Len(posts) = 2
  /\ \E r, s \in Reqs :
       /\ Ok(r, "posts") /\ req[r].resp.post.id = 1
       /\ Ok(s, "posts") /\ req[s].resp.post.id = 2

\* the answers of POST /posts and GET /posts, and the steps on posts
C6_Answers ==
  \A r \in Reqs :
    /\ (Done(r, "posts") /\ req[r].body.present) =>
         /\ req[r].resp.status = 200
         /\ req[r].calls = <<>>
         /\ req[r].resp.post.title = req[r].body.title
         /\ req[r].resp.post.description = req[r].body.description
         /\ req[r].resp.post.fileKey = req[r].body.fileKey
         /\ req[r].resp.post \in Range(posts)
    /\ Done(r, "posts-list") =>
         /\ req[r].resp.status = 200
         /\ req[r].calls = <<>>
         /\ IsPrefix(req[r].resp.body, posts)
C6_Step ==
  /\ IsPrefix(posts, posts') \/ Restarted
  /\ posts' # posts => (Restarted \/ (objects' = objects /\ bucket' = bucket))
  /\ \A r \in Reqs :
       (req'[r] # req[r] /\ req'[r].op = "posts-list") => req'[r].resp.body = posts
  /\ \A r \in Reqs :
       (req'[r] # req[r] /\ req'[r].op = "posts" /\ req'[r].body.present) =>
         posts' = Append(posts, [id |-> Len(posts) + 1,
                                 title |-> req'[r].body.title,
                                 description |-> req'[r].body.description,
                                 fileKey |-> req'[r].body.fileKey])
\* C6: the posts array only grows at its end while the process lives; a
\* POST /posts with a body appends exactly its title, description and
\* fileKey, issues no store call and succeeds whether or not fileKey names a
\* stored object; GET /posts answers with the whole array in order.
C6_AppendOnly == []C6_Answers /\ [][C6_Step]_vars

C6_Witness ==
  \E r, s \in Reqs :
    /\ Ok(s, "posts") /\ ~Exists(req[s].body.fileKey)
    /\ Ok(r, "posts-list") /\ req[r].resp.body = <<req[s].resp.post>>

\* C7 as stated: Upload-URL and Download-URL each answer with a URL and an
\* expiry equal to the duration given to the signing call.
C7_BothReturnExpiry ==
  \A r \in Reqs :
    (Ok(r, "upload-url") \/ Ok(r, "download-url")) =>
      /\ "expiresIn" \in DOMAIN req[r].resp
      /\ req[r].resp.expiresIn = req[r].expiry

\* C7 amended: Upload-URL answers with the URL of the signing call and
\* expiresIn equal to the duration given to that call (24 h in index.js, 5 min
\* in the direct-upload server); Download-URL answers with the URL alone,
\* signed for 5 min; both for any key, stored or not, with the signing call
\* the only store call.
C7_UrlAndExpiry ==
  \A r \in Reqs :
    /\ Ok(r, "upload-url") =>
         /\ req[r].resp.uploadUrl = Presigned("PUT", req[r].key, req[r].expiry)
         /\ req[r].resp.expiresIn = req[r].expiry
         /\ req[r].expiry = IF variant = "proxy" THEN 86400 ELSE 300
         /\ req[r].calls = <<"presignedPutObject">>
    /\ Ok(r, "download-url") =>
         /\ req[r].resp.url = Presigned("GET", req[r].key, 300)
         /\ DOMAIN req[r].resp = {"status", "url"}
         /\ req[r].calls = <<"presignedGetObject">>
    /\ (Done(r, "upload-url") \/ Done(r, "download-url")) =>
         (req[r].resp.status = 200 <=> req[r].failed = "")

C7_Witness ==
  \E r \in Reqs :
    /\ Ok(r, "upload-url") /\ variant = "proxy"
    /\ bucket /\ ~Exists(req[r].key)

\* ensureBucket met an error of the store
EnsureFailed == ensure \in {"checkError", "makeError"}

\* C8 as stated: index.js never listens after a provisioning error, the
\* direct-upload server goes on to listen.
C8_ProxyFatalDirectIgnores ==
  EnsureFailed =>
    IF variant = "proxy"
      THEN "listen" \notin Range(startCalls) /\ pc # "listening"
      ELSE "listen" \in Range(startCalls) /\ pc # "rejected"

\* C8 amended: in index.js a provisioning error is logged inside ensureBucket
\* and start() goes on to call listen; in the direct-upload server the error
\* rejects start(), which never calls listen.
C8_ProxyIgnoresDirectFatal ==
  EnsureFailed =>
    IF variant = "proxy"
      THEN /\ startCalls[Len(startCalls)] = "listen"
           /\ pc \in {"listen", "listening", "exit1"}
      ELSE /\ "listen" \notin Range(startCalls)
           /\ pc = "rejected"

C8_Witness == EnsureFailed /\ variant = "proxy" /\ pc = "listening"

\* what ensureBucket has issued against what it was told, and its steps
C9_Ensure ==
  /\ "makeBucket" \in Range(startCalls) <=>
       ensure \in {"absent", "created", "makeError"}
  /\ ensure = "absent" <=> pc = "makeBucket"
  /\ ensure \in {"absent", "makeError"} => ~bucket
  /\ ensure \in {"present", "created"} => bucket
  /\ Len(SelectSeq(startCalls, LAMBDA c : c = "makeBucket")) <= 1
C9_Step ==
  /\ bucket => bucket'
  /\ (bucket /\ pc' \in {"bucketExists", "makeBucket"}) =>
       "makeBucket" \notin Range(startCalls')
  /\ pc \in {"bucketExists", "makeBucket"} => objects' = objects
\* C9: makeBucket is issued exactly when bucketExists has answered that the
\* bucket is absent; when no call failed the bucket exists once ensureBucket
\* is over; a bucket that exists stays, so a later start issues no makeBucket;
\* provisioning never touches the objects.
C9_Idempotent == []C9_Ensure /\ [][C9_Step]_vars

\* a later start finds the bucket, with objects in it, and goes on to listen
C9_Witness ==
  /\ ensure = "present" /\ pc = "listen"
  /\ accepted > 0 /\ objects # <<>>
  /\ startCalls = <<"bucketExists", "listen">>

\* C10: after a successful Store of a file named n, Retrieve of the key sets
\* Content-Disposition for n and List reports originalName n for the key.
C10_OriginalNameKept ==
  \A r, s \in Reqs :
    (Ok(s, "upload") /\ s \in req[r].seen) =>
      /\ (Ok(r, "file") /\ req[r].key = req[s].resp.filename) =>
           /\ "disposition" \in DOMAIN req[r].resp
           /\ req[r].resp.disposition = req[s].file.filename
      /\ Ok(r, "files") =>
           \A i \in 1..Len(req[r].resp.files) :
             (/\ req[r].resp.files[i].name = req[s].resp.filename
              /\ i \notin req[r].degraded)
             => req[r].resp.files[i].originalName = req[s].file.filename

\* the key of an upload is its tick, "-" and its filename; the answer names
\* the key and the filename; two uploads with one key read one tick and
\* carry one filename
C11_Keys ==
  \A r \in Reqs :
    (req[r].op = "upload" /\ req[r].file.present) =>
      /\ req[r].key = Digits(req[r].tick) \o <<"-">> \o req[r].file.filename
      /\ Ok(r, "upload") =>
           /\ req[r].resp.filename = req[r].key
           /\ req[r].resp.originalName = req[r].file.filename
      /\ \A s \in Reqs :
           (/\ req[s].op = "upload" /\ req[s].file.present
            /\ req[s].key = req[r].key)
           => /\ req[s].tick = req[r].tick
              /\ req[s].file.filename = req[r].file.filename
\* a step that writes an object is the putObject of one upload resolving: it
\* writes that upload's bytes under the key the answer names and leaves every
\* other key, so the objects of uploads with another filename or tick, as it was
C11_PutStep ==
  \A k \in DOMAIN objects' :
    (k \notin DOMAIN objects \/ objects'[k] # objects[k]) =>
      \E r \in Reqs :
        /\ req[r].op = "upload" /\ req[r].pc = "putObject"
        /\ req'[r].pc = "done" /\ req'[r].resp.status = 200
        /\ req'[r].resp.filename = k
        /\ objects'[k].content = req[r].file.content
        /\ \A s \in Reqs :
             (/\ Ok(s, "upload") /\ req[s].key \in DOMAIN objects
              /\ (req[s].tick # req[r].tick
                  \/ req[s].file.filename # req[r].file.filename))
             => objects'[req[s].key] = objects[req[s].key]
\* C11: the key of a Store is the timestamp, "-" and the original filename;
\* two Stores get one key only with the same filename at the same tick; a
\* Store overwrites no object of a Store with another filename or tick; the
\* key returned is the key written.
C11_KeyUniqueness == []C11_Keys /\ [][C11_PutStep]_vars

\* the same filename stored at two ticks: two keys, two objects, each with
\* the bytes of its upload
C11_Witness ==
  \E r, s \in Reqs :
    /\ Ok(r, "upload") /\ Ok(s, "upload")
    /\ req[r].file.filename = req[s].file.filename
    /\ req[r].tick # req[s].tick
    /\ req[r].file.content # req[s].file.content
    /\ Exists(req[r].key) /\ Exists(req[s].key)
    /\ objects[req[r].key].content = req[r].file.content
    /\ objects[req[s].key].content = req[s].file.content

\* the calls on the store a handler awaits
StoreCalls ==
  {"putObject", "getObject", "statObject", "listObjects", "removeObject",
   "presignedPutObject", "presignedGetObject"}
\* the message of a route's catch block for an error that is not a missing key
C12_Message(op) ==
  CASE op = "upload" -> {"Failed to upload file"}
    [] op = "file" -> {"Failed to retrieve file"}
    [] op = "files" -> {"Failed to list files"}
    [] op = "delete" -> {"Failed to delete file"}
    [] op = "upload-url" -> IF variant = "proxy"
                              THEN {"Failed to generate upload URL"}
                              ELSE {"Failed to create presigned URL"}
    [] op = "download-url" -> {"Failed to get download URL"}
    [] OTHER -> {}
\* C12: in Store, Retrieve, List (the enumeration), Delete and the issuance of
\* pre-signed URLs, the first store call that fails ends the request: the
\* answer is an error payload only, the failed call is issued once and is the
\* last call of the request, and an error that is not a not-found error is
\* answered 500 with the short message of the route.
C12_StoreErrorIs500 ==
  \A r \in Reqs :
    (req[r].failed \in StoreCalls) =>
      /\ req[r].pc = "done"
      /\ DOMAIN req[r].resp = {"status", "error"}
      /\ req[r].resp.status \in {404, 500}
      /\ req[r].calls # <<>>
      /\ req[r].calls[Len(req[r].calls)] = req[r].failed
      /\ Cardinality({i \in DOMAIN req[r].calls :
                        req[r].calls[i] = req[r].failed}) = 1
      /\ (req[r].caught \notin MissingKeyCodes) =>
           /\ req[r].resp.status = 500
           /\ req[r].resp.error \in C12_Message(req[r].op)

\* a Retrieve whose second store call failed with an error that is not a
\* not-found error: 500, no stream, nothing issued after the failed call
C12_Witness ==
  \E r \in Reqs :
    /\ Done(r, "file")
    /\ req[r].failed = "statObject" /\ req[r].caught = "Other"
    /\ req[r].calls = <<"getObject", "statObject">>
    /\ req[r].resp = [status |-> 500, error |-> "Failed to retrieve file"]

\* a multipart upload without a file part is answered 400 "No file uploaded"
\* at once and has issued no call on the store
C13_Answer ==
  \A r \in Reqs :
    (/\ req[r].op = "upload" /\ ~req[r].file.present
     /\ req[r].caught # "NotMultipart")
    => /\ req[r].pc = "done"
       /\ req[r].resp = [status |-> 400, error |-> "No file uploaded"]
       /\ req[r].calls = <<>>
       /\ req[r].key = <<>>
\* the step that accepts an upload without a file part leaves the store alone
C13_Step ==
  \A r \in Reqs :
    (/\ req'[r] # req[r]
     /\ req'[r].op = "upload" /\ ~req'[r].file.present)
    => UNCHANGED storeVars
\* C13: an upload that carries no file part is answered 400 with the error
\* "No file uploaded"; no put is issued and the store is unchanged.
C13_NoFileIs400 == []C13_Answer /\ [][C13_Step]_vars

\* an upload without a file part answered 400 while the store holds an object
C13_Witness ==
  \E r \in Reqs :
    /\ Done(r, "upload") /\ ~req[r].file.present
    /\ req[r].resp.status = 400
    /\ objects = EarlierObjects

ReadOps == {"file", "files", "upload-url", "download-url", "health", "posts-list"}
\* request r takes a step of a read operation: it is accepted, or one of its
\* awaited calls resolves or rejects
C15_ReadStep(r) ==
  /\ req'[r].op \in ReadOps
  /\ \/ /\ accepted' # accepted
        /\ req'[r] # [req[r] EXCEPT !.seen = req'[r].seen]
     \/ /\ req[r].op = req'[r].op
        /\ req[r].pc \notin {"idle", "done"}
        /\ req'[r] # req[r]
\* a key appears or an object changes only when the putObject of an upload
\* with that key resolves; a key disappears only when the removeObject of a
\* delete of that key resolves; the register changes only by the Append of
\* an accepted POST /posts, or is lost with the process; a step of a read
\* operation changes none of them
C15_Step ==
  /\ \A k \in DOMAIN objects' :
       (k \notin DOMAIN objects \/ objects'[k] # objects[k]) =>
         \E r \in Reqs :
           /\ req[r].op = "upload" /\ req[r].pc = "putObject"
           /\ req'[r].pc = "done" /\ req[r].key = k
  /\ \A k \in DOMAIN objects \ DOMAIN objects' :
       \E r \in Reqs :
         /\ req[r].op = "delete" /\ req[r].pc = "removeObject"
         /\ req'[r].pc = "done" /\ req[r].key = k
  /\ (posts' # posts) =>
       \/ Restarted
       \/ \E r \in Reqs :
            /\ accepted' # accepted
            /\ req'[r].op = "posts" /\ req'[r] # req[r]
            /\ req'[r].resp.status = 200
            /\ posts' = Append(posts, req'[r].resp.post)
  /\ \A r \in Reqs :
       C15_ReadStep(r) => UNCHANGED <<bucket, objects, posts>>
\* C15: Retrieve, List, Upload-URL, Download-URL, health and the register's
\* List leave the stored objects and the register as they were; only Store
\* adds an object, only Delete removes one, only Append changes the register.
C15_ReadsChangeNothing == [][C15_Step]_vars

\* a List and then a Retrieve of the stored object were answered 200 and the
\* bucket holds what it held when the process started
C15_Witness ==
  \E r, s \in Reqs :
    /\ Ok(r, "files") /\ Ok(s, "file") /\ r \in req[s].seen
    /\ req[r].resp.count = 1
    /\ req[s].key = UniqueFilename(1, <<"a">>)
    /\ objects = EarlierObjects

\* ensureBucket is awaiting bucketExists or makeBucket
Provisioning == ensure \in {"pending", "absent"}
\* C16: in both variants start calls listen only when the provisioning
\* attempt is over, with or without an error, so while provisioning is in
\* progress the server does not listen, no request has been accepted and no
\* handler has issued a store call.
C16_ListenAfterProvisioning ==
  /\ startCalls[1] = "bucketExists"
  /\ ("listen" \in Range(startCalls) \/ pc \in {"listen", "listening"})
       => ~Provisioning
  /\ \A r \in Reqs : req[r].op # "idle" => pc = "listening"
  /\ Provisioning => \A r \in Reqs : req[r] = Idle /\ req[r].calls = <<>>

\* the direct variant made the bucket, listens, and a handler has issued a
\* call on the store
C16_Witness ==
  /\ variant = "direct" /\ pc = "listening" /\ ensure = "created"
  /\ startCalls = <<"bucketExists", "makeBucket", "listen">>
  /\ \E r \in Reqs : req[r].calls # <<>>

====
